---- MODULE Spec2Model ----
(***************************************************************************)
(* bmalloc::AsyncTask (Source/bmalloc/bmalloc/AsyncTask.h).                *)
(*                                                                         *)
(* One AsyncTask instance, its controller threads (callers of run(),       *)
(* stop() and the destructor) and the worker threads it spawns.  Every     *)
(* access to m_state, m_conditionMutex, m_condition and m_thread is one    *)
(* step, so that all interleavings of the atomic operations are explored.  *)
(***************************************************************************)
EXTENDS Integers, FiniteSets, Sequences

\* ------------------------------------------------------------------ bounds
NumCallers == 2
MaxWorkers == 2
\* pendingRuns stops counting at MaxPending.
MaxPending == 2
\* invoked stops counting at MaxInvoked.
MaxInvoked == 2
\* The longest key path, in elements.
MaxPath == 2
\* The most properties a script sets before it calls the key path functions.
MaxProps == 2
\* The most items a script pushes before it calls createIDBKeyFromValue.
MaxItems == 3
\* static const size_t maximumDepth = 2000, scaled down.
maximumDepth == 2
\* The most ProfileNodes a profile holds.
MaxNodes == 4
\* The calls of a node are counted up to MaxCalls.
MaxCalls == 2

Callers == 1..NumCallers
Workers == 1..MaxWorkers

\* enum State { Exited, ExitRequested, Sleeping, Running, RunRequested }
State == {"Exited", "ExitRequested", "Sleeping", "Running", "RunRequested"}

NoThread == 0
NoLocal  == "none"
NoOwner  == <<>>
CallerId(c) == <<"caller", c>>
WorkerId(w) == <<"worker", w>>

VARIABLES
    m_state,        \* std::atomic<State> m_state
    mutexOwner,     \* holder of m_conditionMutex, NoOwner when free
    m_thread,       \* std::thread m_thread: the worker it refers to, NoThread when not joinable
    cpc,            \* cpc[c]: position of controller thread c
    oldState,       \* oldState[c]: the local oldState of run()/stop() of c, NoLocal outside
    joinTarget,     \* joinTarget[c]: the thread c is blocked on in m_thread.join()
    dtor,           \* the controller thread that runs ~AsyncTask, 0 when none
    wpc,            \* wpc[w]: position of worker thread w in threadRunLoop
    timedOut,       \* timedOut[w]: the last wait of w ended with cv_status::timeout (kept while m_state is Sleeping)
    detached,       \* detached[w]: the handle of w was given up by m_thread.detach()
    debugBuild,     \* BASSERT is compiled in
    afterStop,      \* history: a stop() has returned and no run() was called since
    request,        \* history: fate of the latest run request
    everRun,        \* history: run() has been called on the instance
    pendingRuns,    \* history: run() calls that took effect since the last invocation began
    invoked,        \* history: invocations begun since the latest run() call, if it found the instance idle
    lastRun,        \* history: how the latest run() call found the instance
    disturbed,      \* history: a run() or stop() took effect since a worker last entered Sleeping
    casLog,         \* history: casLog[w]: outcome of the attempts made so far in w's loop iteration
    runsAhead,      \* history: run() calls made minus invocations begun, counted up to MaxPending; -1 once an invocation had no call to match
    overlapped,     \* history: a stop() has overlapped another call; casLog and runsAhead are kept until then
    heap,           \* the JS heap: heap[i] is the object or array that reference i denotes
    scriptValue,    \* the JSValue given to the call made last
    keyPathElements,\* the elements IDBParseKeyPath produced for that call
    canInject,      \* what canInjectIDBKeyIntoScriptValue returned
    injected,       \* what injectIDBKeyIntoScriptValue returned
    key,            \* the IDBKey createIDBKeyFromValue returned
    idbStep,        \* how far the script has got: "script", then the calls it has made
    nodes,          \* the ProfileNodes of m_profile: nodes[1] is m_rootNode
    m_currentNode,  \* RefPtr<ProfileNode> m_currentNode, NoNode when null
    m_origin,       \* m_origin is not null
    m_suspended,    \* bool m_suspended
    lastCall,       \* history: the member function called last and its call identifier
    nodeBefore      \* history: m_currentNode before that call

\* The state of the AsyncTask instance and of its threads.
taskVars == <<m_state, mutexOwner, m_thread, cpc, oldState, joinTarget, dtor,
              wpc, timedOut, detached, debugBuild, afterStop, request, everRun,
              pendingRuns, invoked, lastRun, disturbed, casLog, runsAhead,
              overlapped>>

\* The state of the IndexedDB bindings.
idbVars == <<heap, scriptValue, keyPathElements, canInject, injected, key, idbStep>>

\* The state of the ProfileGenerator.
profVars == <<nodes, m_currentNode, m_origin, m_suspended, lastCall, nodeBefore>>

vars == <<taskVars, idbVars, profVars>>

RunPcs  == {"run_xchg", "run_lock", "run_notify", "run_assert",
            "run_detach", "run_spawn"}
StopPcs == {"stop_lock", "stop_notify", "stop_joinable", "stop_joining"}
CallerPcs == {"idle", "destroyed", "aborted"} \cup RunPcs \cup StopPcs

LoopPcs == {"cas1", "call", "cas2", "lock", "pred", "waiting", "relock",
            "unlock", "cas3", "cas4"}
WorkerPcs == {"free", "done", "aborted"} \cup LoopPcs

\* ---------------------------------------------------- JS values and keys
\* Property names a key path element can be.
Names == {"a", "length"}

\* A JSValue: a primitive, or a reference to a cell of the heap.
JSPrimitive(kind) == [kind |-> kind, ref |-> 0]
JSUndefined == JSPrimitive("undefined")
JSNumber == JSPrimitive("number")
JSNaN == JSPrimitive("nan")
JSString == JSPrimitive("string")
JSReference(i) == [kind |-> "object", ref |-> i]
\* A Date object, taken as a value of its own; invalid: its time is NaN.
JSDate == JSPrimitive("date")
JSInvalidDate == JSPrimitive("invalidDate")
\* What hasProperty() finds missing.
Absent == JSPrimitive("absent")

IsObject(value) == value.kind \in {"object", "date", "invalidDate"}

\* A cell of the heap: a plain object with its own properties, or a JSArray
\* with its items.
EmptyObject == [isArray |-> FALSE, props |-> [n \in Names |-> Absent], items |-> <<>>]
EmptyArray == [isArray |-> TRUE, props |-> [n \in Names |-> Absent], items |-> <<>>]

\* RefPtr<IDBKey>: nullptr, or a key of some KeyType.
NullKey == [type |-> "null", array |-> <<>>]
IDBKeyOf(type) == [type |-> type, array |-> <<>>]
InvalidKey == IDBKeyOf("Invalid")
IDBKeyArray(subkeys) == [type |-> "Array", array |-> subkeys]

\* ----------------------------------------------------------- profile nodes
\* The call identifiers of the functions profiled, and that of the root node.
CallIdentifiers == {"f", "g"}
RootIdentifier == "Thread_1"

NoNode == 0
NoCall == [fn |-> "none", callIdentifier |-> "none"]

TypeOK ==
    /\ m_state \in State
    /\ mutexOwner \in {NoOwner} \cup {CallerId(c) : c \in Callers}
                             \cup {WorkerId(w) : w \in Workers}
    /\ m_thread \in {NoThread} \cup Workers
    /\ cpc \in [Callers -> CallerPcs]
    /\ oldState \in [Callers -> State \cup {NoLocal}]
    /\ joinTarget \in [Callers -> {NoThread} \cup Workers]
    /\ dtor \in {0} \cup Callers
    /\ wpc \in [Workers -> WorkerPcs]
    /\ timedOut \in [Workers -> BOOLEAN]
    /\ detached \in [Workers -> BOOLEAN]
    /\ debugBuild \in BOOLEAN
    /\ afterStop \in BOOLEAN
    /\ request \in {"none", "pending", "cancelled"}
    /\ everRun \in BOOLEAN
    /\ pendingRuns \in 0..MaxPending
    /\ invoked \in 0..MaxInvoked
    /\ lastRun \in {"none", "fast", "idle", "busy"}
    /\ disturbed \in BOOLEAN
    /\ casLog \in [Workers -> {"none", "failed", "spurious", "succeeded"}]
    /\ runsAhead \in -1..MaxPending
    /\ overlapped \in BOOLEAN
    /\ \A i \in 1..Len(heap) : /\ heap[i].isArray \in BOOLEAN
                                /\ \A n \in Names : heap[i].props[n].ref \in 0..Len(heap)
                                /\ \A k \in 1..Len(heap[i].items) : heap[i].items[k].ref \in 0..Len(heap)
    /\ scriptValue.ref \in 0..Len(heap)
    /\ \A k \in 1..Len(keyPathElements) : keyPathElements[k] \in Names
    /\ canInject \in BOOLEAN
    /\ injected \in BOOLEAN
    /\ key.type \in {"null", "Invalid", "Number", "String", "Date", "Array"}
    /\ idbStep \in {"none", "script", "checked", "injected", "converted"}
    /\ \A n \in 1..Len(nodes) :
           /\ nodes[n].callIdentifier \in CallIdentifiers \cup {RootIdentifier}
           /\ nodes[n].parent \in 0..Len(nodes)
           /\ \A k \in 1..Len(nodes[n].children) : nodes[n].children[k] \in 1..Len(nodes)
           /\ nodes[n].calls \in 0..MaxCalls
    /\ m_currentNode \in 0..Len(nodes)
    /\ m_origin \in BOOLEAN
    /\ m_suspended \in BOOLEAN
    /\ lastCall.fn \in {"none", "willExecute", "didExecute", "setIsSuspended"}
    /\ nodeBefore \in 0..Len(nodes)

\* ------------------------------------------------------------ predicates
\* w is executing threadRunLoop: spawned, final CAS to Exited not yet done.
InRunLoop(w) == wpc[w] \in LoopPcs
\* w is inside (m_object.*m_function)().
Invoking(w) == wpc[w] = "call"
InRun(c)  == cpc[c] \in RunPcs
InStop(c) == cpc[c] \in StopPcs
\* w is between its Running -> Sleeping exchange and the end of wait_for,
\* the wait not having timed out.
InWait(w) == wpc[w] \in {"lock", "pred", "waiting"}
              \/ (wpc[w] = "relock" /\ ~timedOut[w])
\* c has moved m_state away from Sleeping and has yet to notify.
Notifying(c) == cpc[c] \in {"run_lock", "run_notify", "stop_lock", "stop_notify"}
CallInProgress == \E c \in Callers : InRun(c) \/ InStop(c)
StopInProgress == \E c \in Callers : InStop(c)
NoWorkerInLoop == \A w \in Workers : ~InRunLoop(w)
\* The instance is idle: no worker thread is live and no call is in progress.
Idle == NoWorkerInLoop /\ ~CallInProgress
FreeWorkers == {w \in Workers : wpc[w] = "free"}
\* Controller threads on their way to m_thread = std::thread(...).
Spawning == {c \in Callers : cpc[c] \in {"run_assert", "run_detach", "run_spawn"}}
\* The model has a thread left for one more run() that is going to spawn.
ThreadAvailable == Cardinality(FreeWorkers) > Cardinality(Spawning)
\* The id the next std::thread gets.
NextWorker == CHOOSE w \in FreeWorkers : \A v \in FreeWorkers : w <= v

\* AsyncTask::AsyncTask: m_state(Exited), m_condition(), m_thread()
Constructed ==
    /\ m_state = "Exited"
    /\ mutexOwner = NoOwner
    /\ m_thread = NoThread
    /\ cpc = [c \in Callers |-> "idle"]
    /\ oldState = [c \in Callers |-> NoLocal]
    /\ joinTarget = [c \in Callers |-> NoThread]
    /\ dtor = 0
    /\ wpc = [w \in Workers |-> "free"]
    /\ timedOut = [w \in Workers |-> FALSE]
    /\ detached = [w \in Workers |-> FALSE]
    /\ afterStop = FALSE
    /\ request = "none"
    /\ everRun = FALSE
    /\ pendingRuns = 0
    /\ invoked = 0
    /\ lastRun = "none"
    /\ disturbed = TRUE
    /\ casLog = [w \in Workers |-> "none"]
    /\ runsAhead = 0
    /\ overlapped = FALSE

\* No script has run: the heap is empty and no binding function was called.
NoScript ==
    /\ heap = <<>>
    /\ scriptValue = JSUndefined
    /\ keyPathElements = <<>>
    /\ canInject = FALSE
    /\ injected = FALSE
    /\ key = NullKey
    /\ idbStep = "none"

\* No ProfileGenerator exists.
NoProfile ==
    /\ nodes = <<>>
    /\ m_currentNode = NoNode
    /\ m_origin = FALSE
    /\ m_suspended = FALSE
    /\ lastCall = NoCall
    /\ nodeBefore = NoNode

Init ==
    /\ Constructed
    /\ debugBuild \in BOOLEAN
    /\ NoScript
    /\ NoProfile

\* ------------------------------------------------------- shared helpers
\* One more run() call has taken effect (it read RunRequested on the fast
\* path, or made its exchange).
OneMoreRun == IF pendingRuns < MaxPending THEN pendingRuns + 1 ELSE pendingRuns

\* The record of the exchanges when no attempt has been made.
NoLog == [w \in Workers |-> "none"]

\* casLog and runsAhead after a call has begun: they are given up when a
\* stop() overlaps another call.
KeptLog == IF overlapped' THEN NoLog ELSE casLog
KeptCount == IF overlapped' THEN 0 ELSE runsAhead

\* One more run() call has been made.
OneMoreCall ==
    IF overlapped' THEN 0
    ELSE IF runsAhead \in 0..(MaxPending - 1) THEN runsAhead + 1 ELSE runsAhead

\* One more invocation has begun: it is matched with a call made earlier, if
\* there is one left.
OneCallMatched ==
    IF overlapped THEN 0 ELSE IF runsAhead > 0 THEN runsAhead - 1 ELSE -1

\* One more invocation of the callable has begun.  They are counted for a
\* run() call that found the instance idle.
OneMoreInvocation ==
    IF lastRun = "idle" /\ invoked < MaxInvoked THEN invoked + 1 ELSE invoked

\* BASSERT(cond): aborts the process in a debug build, compiles to nothing
\* otherwise.  TRUE when the process is aborted.
BASSERT(cond) == debugBuild /\ ~cond

\* m_condition.notify_all(): every thread blocked in the wait is made
\* runnable; it must re-acquire m_conditionMutex before it goes on.
NotifyAll ==
    [w \in Workers |-> IF wpc[w] = "waiting" THEN "relock" ELSE wpc[w]]

\* The process is aborted (BASSERT, std::terminate, uncaught exception):
\* every thread of it is gone.
AbortedCallers == [c \in Callers |-> "aborted"]
AbortedWorkers == [w \in Workers |-> "aborted"]
Crashed == \E c \in Callers : cpc[c] = "aborted"

\* Some controller thread is blocked in join() on worker w.
BeingJoined(w) == \E d \in Callers : cpc[d] = "stop_joining" /\ joinTarget[d] = w

\* The position of a controller thread whose stop() returns.
AfterReturn(c) == IF dtor = c THEN "destroyed" ELSE "idle"

\* The position of a worker whose threadRunLoop returns: a detached thread
\* releases its resources itself, a joinable one stays until it is joined.
AfterExit(w) == IF detached[w] THEN "free" ELSE "done"

\* ------------------------------------------------------------ run()
\* Variant of RunCall without the fast path: every call goes on to
\* runSlowCase().
RunCallNoFastPath(c) ==
    /\ cpc[c] = "idle"
    /\ dtor = 0
    /\ cpc' = [cpc EXCEPT ![c] = "run_xchg"]
    /\ lastRun' = IF Idle THEN "idle" ELSE "busy"
    /\ afterStop' = FALSE
    /\ everRun' = TRUE
    /\ invoked' = 0
    /\ overlapped' = (overlapped \/ StopInProgress)
    /\ runsAhead' = OneMoreCall
    /\ casLog' = KeptLog
    /\ UNCHANGED <<m_state, mutexOwner, m_thread, oldState, joinTarget,
                   dtor, wpc, timedOut, detached, debugBuild, request,
                   pendingRuns, disturbed, idbVars, profVars>>

\* run(): if (m_state == RunRequested) return; runSlowCase();
RunCall(c) ==
    /\ cpc[c] = "idle"
    /\ dtor = 0
    /\ IF m_state = "RunRequested"
         THEN /\ request' = "pending"
              /\ pendingRuns' = OneMoreRun
              /\ lastRun' = "fast"
              /\ disturbed' = TRUE
              /\ cpc' = cpc
         ELSE /\ request' = request
              /\ pendingRuns' = pendingRuns
              /\ lastRun' = IF Idle THEN "idle" ELSE "busy"
              /\ disturbed' = disturbed
              /\ cpc' = [cpc EXCEPT ![c] = "run_xchg"]
    /\ afterStop' = FALSE
    /\ everRun' = TRUE
    /\ invoked' = 0
    /\ overlapped' = (overlapped \/ StopInProgress)
    /\ runsAhead' = OneMoreCall
    /\ casLog' = KeptLog
    /\ UNCHANGED <<m_state, mutexOwner, m_thread, oldState, joinTarget,
                   dtor, wpc, timedOut, detached, debugBuild, idbVars,
                   profVars>>

\* runSlowCase(): State oldState = m_state.exchange(RunRequested);
\*                the two early returns and the choice of the branch.
RunExchange(c) ==
    /\ cpc[c] = "run_xchg"
    /\ m_state \in {"Exited", "ExitRequested"} => ThreadAvailable
    /\ m_state' = "RunRequested"
    /\ IF m_state \in {"RunRequested", "Running"}
         THEN /\ cpc' = [cpc EXCEPT ![c] = "idle"]
              /\ oldState' = oldState
         ELSE /\ cpc' = [cpc EXCEPT ![c] = IF m_state = "Sleeping" THEN "run_lock"
                                          ELSE "run_assert"]
              /\ oldState' = [oldState EXCEPT ![c] = m_state]
    /\ request' = IF m_state = "ExitRequested" THEN request ELSE "pending"
    /\ pendingRuns' = OneMoreRun
    /\ disturbed' = TRUE
    /\ UNCHANGED <<mutexOwner, m_thread, joinTarget, dtor, wpc, timedOut,
                   detached, debugBuild, afterStop, everRun,
                   invoked, lastRun, casLog, runsAhead,
                   idbVars, profVars, overlapped>>

\* std::lock_guard<Mutex> lock(m_conditionMutex);
RunLock(c) ==
    /\ cpc[c] = "run_lock"
    /\ mutexOwner = NoOwner
    /\ mutexOwner' = CallerId(c)
    /\ cpc' = [cpc EXCEPT ![c] = "run_notify"]
    /\ UNCHANGED <<m_state, m_thread, oldState, joinTarget, dtor, wpc,
                   timedOut, detached, debugBuild, afterStop, request, everRun,
                   pendingRuns, invoked, lastRun, disturbed,
                   casLog, runsAhead, idbVars, profVars,
                   overlapped>>

\* m_condition.notify_all(); return;  (the lock_guard unlocks)
RunNotify(c) ==
    /\ cpc[c] = "run_notify"
    /\ wpc' = NotifyAll
    /\ timedOut' = [w \in Workers |-> IF wpc[w] = "waiting" THEN FALSE ELSE timedOut[w]]
    /\ mutexOwner' = NoOwner
    /\ cpc' = [cpc EXCEPT ![c] = "idle"]
    /\ oldState' = [oldState EXCEPT ![c] = NoLocal]
    /\ UNCHANGED <<m_state, m_thread, joinTarget, dtor, detached,
                   debugBuild, afterStop, request, everRun,
                   pendingRuns, invoked, lastRun, disturbed,
                   casLog, runsAhead, idbVars, profVars,
                   overlapped>>

\* BASSERT(oldState == Exited);
RunAssert(c) ==
    /\ cpc[c] = "run_assert"
    /\ IF BASSERT(oldState[c] = "Exited")
         THEN /\ cpc' = AbortedCallers
              /\ wpc' = AbortedWorkers
         ELSE /\ cpc' = [cpc EXCEPT ![c] = "run_detach"]
              /\ wpc' = wpc
    /\ UNCHANGED <<m_state, mutexOwner, m_thread, oldState, joinTarget, dtor,
                   timedOut, detached, debugBuild, afterStop, request, everRun,
                   pendingRuns, invoked, lastRun, disturbed,
                   casLog, runsAhead, idbVars, profVars,
                   overlapped>>

\* if (m_thread.joinable()) m_thread.detach();
\* detach() of a thread another thread is blocked joining is undefined: it
\* either throws std::system_error, which nobody catches, or only drops the
\* handle.
RunDetach(c) ==
    /\ cpc[c] = "run_detach"
    /\ IF m_thread = NoThread
         THEN /\ cpc' = [cpc EXCEPT ![c] = "run_spawn"]
              /\ UNCHANGED <<m_thread, wpc, detached>>
         ELSE IF BeingJoined(m_thread)
         THEN \E throws \in BOOLEAN :
                IF throws
                  THEN /\ cpc' = AbortedCallers
                       /\ wpc' = AbortedWorkers
                       /\ UNCHANGED <<m_thread, detached>>
                  ELSE /\ cpc' = [cpc EXCEPT ![c] = "run_spawn"]
                       /\ m_thread' = NoThread
                       /\ UNCHANGED <<wpc, detached>>
         ELSE /\ cpc' = [cpc EXCEPT ![c] = "run_spawn"]
              /\ detached' = [detached EXCEPT ![m_thread] = wpc[m_thread] # "done"]
              /\ wpc' = [wpc EXCEPT ![m_thread] = IF @ = "done" THEN "free" ELSE @]
              /\ m_thread' = NoThread
    /\ UNCHANGED <<m_state, mutexOwner, oldState, joinTarget, dtor, timedOut,
                   debugBuild, afterStop, request, everRun,
                   pendingRuns, invoked, lastRun, disturbed,
                   casLog, runsAhead, idbVars, profVars,
                   overlapped>>

\* Variant of RunSpawn that returns without starting a thread.
RunSpawnNoThread(c) ==
    /\ cpc[c] = "run_spawn"
    /\ cpc' = [cpc EXCEPT ![c] = "idle"]
    /\ oldState' = [oldState EXCEPT ![c] = NoLocal]
    /\ UNCHANGED <<m_state, mutexOwner, m_thread, joinTarget, dtor, wpc,
                   timedOut, detached, debugBuild, afterStop, request, everRun,
                   pendingRuns, invoked, lastRun, disturbed,
                   casLog, runsAhead, idbVars, profVars,
                   overlapped>>

\* m_thread = std::thread(&AsyncTask::threadEntryPoint, this);  return
\* Move-assignment to a joinable std::thread calls std::terminate().
RunSpawn(c) ==
    /\ cpc[c] = "run_spawn"
    /\ IF m_thread # NoThread
         THEN /\ cpc' = AbortedCallers
              /\ wpc' = AbortedWorkers
              /\ UNCHANGED <<m_thread, oldState>>
         ELSE /\ m_thread' = NextWorker
              /\ wpc' = [wpc EXCEPT ![NextWorker] = "cas1"]
              /\ cpc' = [cpc EXCEPT ![c] = "idle"]
              /\ oldState' = [oldState EXCEPT ![c] = NoLocal]
    /\ UNCHANGED <<m_state, mutexOwner, joinTarget, dtor, timedOut, detached,
                   debugBuild, afterStop, request, everRun,
                   pendingRuns, invoked, lastRun, disturbed,
                   casLog, runsAhead, idbVars, profVars,
                   overlapped>>

\* ------------------------------------------------------------ stop()
\* Variant of StopCall that reads m_state without writing ExitRequested.
StopCallNoExchange(c, asDtor) ==
    /\ cpc[c] = "idle"
    /\ dtor = 0
    /\ dtor' = IF asDtor THEN c ELSE 0
    /\ oldState' = [oldState EXCEPT ![c] = m_state]
    /\ cpc' = [cpc EXCEPT ![c] = IF m_state = "Sleeping" THEN "stop_lock"
                                 ELSE "stop_joinable"]
    /\ request' = IF request = "pending" THEN "cancelled" ELSE request
    /\ disturbed' = TRUE
    /\ overlapped' = (overlapped \/ CallInProgress)
    /\ runsAhead' = KeptCount
    /\ casLog' = KeptLog
    /\ UNCHANGED <<m_state, mutexOwner, m_thread, joinTarget, wpc,
                   timedOut, detached, debugBuild, afterStop, everRun,
                   pendingRuns, invoked, lastRun, idbVars, profVars>>

\* Variant of StopCall whose exchange writes Exited.
StopCallWritesExited(c, asDtor) ==
    /\ cpc[c] = "idle"
    /\ dtor = 0
    /\ dtor' = IF asDtor THEN c ELSE 0
    /\ oldState' = [oldState EXCEPT ![c] = m_state]
    /\ m_state' = "Exited"
    /\ cpc' = [cpc EXCEPT ![c] = IF m_state = "Sleeping" THEN "stop_lock"
                                 ELSE "stop_joinable"]
    /\ request' = IF request = "pending" THEN "cancelled" ELSE request
    /\ disturbed' = TRUE
    /\ overlapped' = (overlapped \/ CallInProgress)
    /\ runsAhead' = KeptCount
    /\ casLog' = KeptLog
    /\ UNCHANGED <<mutexOwner, m_thread, joinTarget, wpc, timedOut,
                   detached, debugBuild, afterStop, everRun, pendingRuns,
                   invoked, lastRun, idbVars, profVars>>

\* stop(): State oldState = m_state.exchange(ExitRequested);
\* asDtor: the call is the one made by ~AsyncTask.
StopCall(c, asDtor) ==
    /\ cpc[c] = "idle"
    /\ dtor = 0
    /\ dtor' = IF asDtor THEN c ELSE 0
    /\ oldState' = [oldState EXCEPT ![c] = m_state]
    /\ m_state' = "ExitRequested"
    /\ cpc' = [cpc EXCEPT ![c] = IF m_state = "Sleeping" THEN "stop_lock"
                                 ELSE "stop_joinable"]
    /\ request' = IF request = "pending" THEN "cancelled" ELSE request
    /\ disturbed' = TRUE
    /\ overlapped' = (overlapped \/ CallInProgress)
    /\ runsAhead' = KeptCount
    /\ casLog' = KeptLog
    /\ UNCHANGED <<mutexOwner, m_thread, joinTarget, wpc, timedOut,
                   detached, debugBuild, afterStop, everRun, pendingRuns,
                   invoked, lastRun, idbVars, profVars>>

\* std::lock_guard<Mutex> lock(m_conditionMutex);
StopLock(c) ==
    /\ cpc[c] = "stop_lock"
    /\ mutexOwner = NoOwner
    /\ mutexOwner' = CallerId(c)
    /\ cpc' = [cpc EXCEPT ![c] = "stop_notify"]
    /\ UNCHANGED <<m_state, m_thread, oldState, joinTarget, dtor, wpc,
                   timedOut, detached, debugBuild, afterStop, request, everRun,
                   pendingRuns, invoked, lastRun, disturbed,
                   casLog, runsAhead, idbVars, profVars,
                   overlapped>>

\* m_condition.notify_all();  (the lock_guard unlocks at the end of the block)
StopNotify(c) ==
    /\ cpc[c] = "stop_notify"
    /\ wpc' = NotifyAll
    /\ timedOut' = [w \in Workers |-> IF wpc[w] = "waiting" THEN FALSE ELSE timedOut[w]]
    /\ mutexOwner' = NoOwner
    /\ cpc' = [cpc EXCEPT ![c] = "stop_joinable"]
    /\ UNCHANGED <<m_state, m_thread, oldState, joinTarget, dtor, detached,
                   debugBuild, afterStop, request, everRun,
                   pendingRuns, invoked, lastRun, disturbed,
                   casLog, runsAhead, idbVars, profVars,
                   overlapped>>

\* Variant of StopJoinable that returns without joining a joinable thread.
StopJoinableSkipsJoin(c) ==
    /\ cpc[c] = "stop_joinable"
    /\ cpc' = [cpc EXCEPT ![c] = AfterReturn(c)]
    /\ oldState' = [oldState EXCEPT ![c] = NoLocal]
    /\ afterStop' = TRUE
    /\ UNCHANGED <<m_state, mutexOwner, m_thread, joinTarget, dtor, wpc,
                   timedOut, detached, debugBuild, request, everRun,
                   pendingRuns, invoked, lastRun, disturbed,
                   casLog, runsAhead, idbVars, profVars,
                   overlapped>>

\* if (m_thread.joinable()) m_thread.join();   -- entry of join()
\* Not joinable: stop() returns.  join() of a thread another thread is
\* already joining fails (EINVAL) and throws.
StopJoinable(c) ==
    /\ cpc[c] = "stop_joinable"
    /\ IF m_thread = NoThread
         THEN /\ cpc' = [cpc EXCEPT ![c] = AfterReturn(c)]
              /\ oldState' = [oldState EXCEPT ![c] = NoLocal]
              /\ afterStop' = TRUE
              /\ UNCHANGED <<joinTarget, wpc>>
         ELSE IF BeingJoined(m_thread)
         THEN /\ cpc' = AbortedCallers
              /\ wpc' = AbortedWorkers
              /\ UNCHANGED <<oldState, joinTarget, afterStop>>
         ELSE /\ joinTarget' = [joinTarget EXCEPT ![c] = m_thread]
              /\ cpc' = [cpc EXCEPT ![c] = "stop_joining"]
              /\ UNCHANGED <<oldState, wpc, afterStop>>
    /\ UNCHANGED <<m_state, mutexOwner, m_thread, dtor, timedOut, detached,
                   debugBuild, request, everRun, pendingRuns,
                   invoked, lastRun, disturbed, casLog,
                   runsAhead, idbVars, profVars, overlapped>>

\* Variant of StopJoined in which join() does not wait for the thread.
StopJoinedNoWait(c) ==
    /\ cpc[c] = "stop_joining"
    /\ wpc' = [wpc EXCEPT ![joinTarget[c]] = IF @ = "done" THEN "free" ELSE @]
    /\ detached' = [detached EXCEPT ![joinTarget[c]] = wpc[joinTarget[c]] # "done"]
    /\ m_thread' = NoThread
    /\ joinTarget' = [joinTarget EXCEPT ![c] = NoThread]
    /\ cpc' = [cpc EXCEPT ![c] = AfterReturn(c)]
    /\ oldState' = [oldState EXCEPT ![c] = NoLocal]
    /\ afterStop' = TRUE
    /\ UNCHANGED <<m_state, mutexOwner, dtor, timedOut, debugBuild, request,
                   everRun, pendingRuns, invoked, lastRun,
                   disturbed, casLog, runsAhead, idbVars,
                   profVars, overlapped>>

\* Variant of StopJoined in which join() leaves the handle joinable.
StopJoinedKeepsHandle(c) ==
    /\ cpc[c] = "stop_joining"
    /\ wpc[joinTarget[c]] = "done"
    /\ joinTarget' = [joinTarget EXCEPT ![c] = NoThread]
    /\ cpc' = [cpc EXCEPT ![c] = AfterReturn(c)]
    /\ oldState' = [oldState EXCEPT ![c] = NoLocal]
    /\ afterStop' = TRUE
    /\ UNCHANGED <<m_state, mutexOwner, m_thread, dtor, wpc, timedOut, detached,
                   debugBuild, request, everRun, pendingRuns,
                   invoked, lastRun, disturbed, casLog,
                   runsAhead, idbVars, profVars, overlapped>>

\* m_thread.join() returns once the thread has finished; the handle is
\* reset (not joinable) and stop() returns.
StopJoined(c) ==
    /\ cpc[c] = "stop_joining"
    /\ wpc[joinTarget[c]] = "done"
    /\ wpc' = [wpc EXCEPT ![joinTarget[c]] = "free"]
    /\ m_thread' = NoThread
    /\ joinTarget' = [joinTarget EXCEPT ![c] = NoThread]
    /\ cpc' = [cpc EXCEPT ![c] = AfterReturn(c)]
    /\ oldState' = [oldState EXCEPT ![c] = NoLocal]
    /\ afterStop' = TRUE
    /\ UNCHANGED <<m_state, mutexOwner, dtor, timedOut, detached,
                   debugBuild, request, everRun, pendingRuns,
                   invoked, lastRun, disturbed, casLog,
                   runsAhead, idbVars, profVars, overlapped>>

\* ----------------------------------------------------- threadRunLoop()
\* m_state.compare_exchange_weak(expected, desired): TRUE when the exchange
\* happens.  The weak form may fail although m_state = expected.
CasSucceeds(expected, spurious) == m_state = expected /\ ~spurious

\* The record of the attempts of w's loop iteration after one more attempt:
\* "succeeded" once an exchange has happened, else "spurious" once an attempt
\* has failed although m_state held the expected value, else "failed".
\* first: the attempt opens the iteration.  The record is kept up to the
\* fourth attempt.
Logged(w, expected, spurious, first) ==
    LET before == IF first THEN "failed" ELSE casLog[w]
    IN  IF overlapped THEN "none"
        ELSE IF CasSucceeds(expected, spurious) \/ before = "succeeded" THEN "succeeded"
        ELSE IF m_state = expected \/ before = "spurious" THEN "spurious"
        ELSE "failed"

\* Variant of Cas1 whose exchange leaves RunRequested in m_state.
Cas1KeepsRequest(w, spurious) ==
    /\ wpc[w] = "cas1"
    /\ casLog' = [casLog EXCEPT ![w] = Logged(w, "RunRequested", spurious, TRUE)]
    /\ IF CasSucceeds("RunRequested", spurious)
         THEN /\ wpc' = [wpc EXCEPT ![w] = "call"]
              /\ request' = "none"
              /\ pendingRuns' = 0
              /\ invoked' = OneMoreInvocation
              /\ runsAhead' = OneCallMatched
         ELSE /\ wpc' = [wpc EXCEPT ![w] = "cas2"]
              /\ UNCHANGED <<request, pendingRuns, invoked, runsAhead>>
    /\ UNCHANGED <<m_state, mutexOwner, m_thread, cpc, oldState, joinTarget,
                   dtor, timedOut, detached, debugBuild, afterStop, everRun, lastRun,
                   disturbed, idbVars, profVars, overlapped>>

\* Variant of Cas1 that goes on to the callable whether or not the exchange
\* succeeded.
Cas1InvokesAnyway(w, spurious) ==
    /\ wpc[w] = "cas1"
    /\ casLog' = [casLog EXCEPT ![w] = Logged(w, "RunRequested", spurious, TRUE)]
    /\ wpc' = [wpc EXCEPT ![w] = "call"]
    /\ request' = "none"
    /\ pendingRuns' = 0
    /\ invoked' = OneMoreInvocation
    /\ runsAhead' = OneCallMatched
    /\ m_state' = IF CasSucceeds("RunRequested", spurious) THEN "Running" ELSE m_state
    /\ UNCHANGED <<mutexOwner, m_thread, cpc, oldState, joinTarget, dtor,
                   timedOut, detached, debugBuild, afterStop, everRun, lastRun,
                   disturbed, idbVars, profVars, overlapped>>

\* expectedState = RunRequested;
\* if (m_state.compare_exchange_weak(expectedState, Running)) -> the call begins
Cas1(w, spurious) ==
    /\ wpc[w] = "cas1"
    /\ casLog' = [casLog EXCEPT ![w] = Logged(w, "RunRequested", spurious, TRUE)]
    /\ IF CasSucceeds("RunRequested", spurious)
         THEN /\ m_state' = "Running"
              /\ wpc' = [wpc EXCEPT ![w] = "call"]
              /\ request' = "none"
              /\ pendingRuns' = 0
              /\ invoked' = OneMoreInvocation
              /\ runsAhead' = OneCallMatched
         ELSE /\ wpc' = [wpc EXCEPT ![w] = "cas2"]
              /\ UNCHANGED <<m_state, request, pendingRuns, invoked, runsAhead>>
    /\ UNCHANGED <<mutexOwner, m_thread, cpc, oldState, joinTarget, dtor,
                   timedOut, detached, debugBuild, afterStop, everRun, lastRun,
                   disturbed, idbVars, profVars, overlapped>>

\* (m_object.*m_function)() returns
CallReturns(w) ==
    /\ wpc[w] = "call"
    /\ wpc' = [wpc EXCEPT ![w] = "cas2"]
    /\ UNCHANGED <<m_state, mutexOwner, m_thread, cpc, oldState, joinTarget,
                   dtor, timedOut, detached, debugBuild, afterStop,
                   request, everRun, pendingRuns, invoked,
                   lastRun, disturbed, casLog, runsAhead,
                   idbVars, profVars, overlapped>>

\* Variant of Cas2 whose desired value is RunRequested instead of Sleeping.
Cas2RequestsRun(w, spurious) ==
    /\ wpc[w] = "cas2"
    /\ casLog' = [casLog EXCEPT ![w] = Logged(w, "Running", spurious, FALSE)]
    /\ IF CasSucceeds("Running", spurious)
         THEN /\ m_state' = "RunRequested"
              /\ wpc' = [wpc EXCEPT ![w] = "lock"]
              /\ timedOut' = [timedOut EXCEPT ![w] = FALSE]
              /\ disturbed' = FALSE
         ELSE /\ wpc' = [wpc EXCEPT ![w] = "cas3"]
              /\ UNCHANGED <<m_state, timedOut, disturbed>>
    /\ UNCHANGED <<mutexOwner, m_thread, cpc, oldState, joinTarget, dtor,
                   detached, debugBuild, afterStop, request, everRun,
                   pendingRuns, invoked, lastRun, runsAhead,
                   idbVars, profVars, overlapped>>

\* expectedState = Running;
\* if (m_state.compare_exchange_weak(expectedState, Sleeping)) { ... wait ... }
Cas2(w, spurious) ==
    /\ wpc[w] = "cas2"
    /\ casLog' = [casLog EXCEPT ![w] = Logged(w, "Running", spurious, FALSE)]
    /\ IF CasSucceeds("Running", spurious)
         THEN /\ m_state' = "Sleeping"
              /\ wpc' = [wpc EXCEPT ![w] = "lock"]
              /\ timedOut' = [timedOut EXCEPT ![w] = FALSE]
              /\ disturbed' = FALSE
         ELSE /\ wpc' = [wpc EXCEPT ![w] = "cas3"]
              /\ UNCHANGED <<m_state, timedOut, disturbed>>
    /\ UNCHANGED <<mutexOwner, m_thread, cpc, oldState, joinTarget, dtor,
                   detached, debugBuild, afterStop, request, everRun,
                   pendingRuns, invoked, lastRun, runsAhead,
                   idbVars, profVars, overlapped>>

\* std::unique_lock<Mutex> lock(m_conditionMutex);
WaitLock(w) ==
    /\ wpc[w] = "lock"
    /\ mutexOwner = NoOwner
    /\ mutexOwner' = WorkerId(w)
    /\ wpc' = [wpc EXCEPT ![w] = "pred"]
    /\ UNCHANGED <<m_state, m_thread, cpc, oldState, joinTarget, dtor,
                   timedOut, detached, debugBuild, afterStop, request, everRun,
                   pendingRuns, invoked, lastRun, disturbed,
                   casLog, runsAhead, idbVars, profVars,
                   overlapped>>

\* Variant of WaitPred that blocks without testing the predicate.
WaitPredNoCheck(w) ==
    /\ wpc[w] = "pred"
    /\ mutexOwner = WorkerId(w)
    /\ mutexOwner' = NoOwner
    /\ wpc' = [wpc EXCEPT ![w] = "waiting"]
    /\ UNCHANGED <<m_state, m_thread, cpc, oldState, joinTarget, dtor,
                   timedOut, detached, debugBuild, afterStop, request, everRun,
                   pendingRuns, invoked, lastRun, disturbed,
                   casLog, runsAhead, idbVars, profVars,
                   overlapped>>

\* Variant of WaitPred that blocks in the wait without releasing the mutex.
WaitPredKeepsMutex(w) ==
    /\ wpc[w] = "pred"
    /\ mutexOwner = WorkerId(w)
    /\ mutexOwner' = IF m_state # "Sleeping" THEN NoOwner ELSE mutexOwner
    /\ wpc' = [wpc EXCEPT ![w] = IF m_state # "Sleeping" THEN "cas3" ELSE "waiting"]
    /\ UNCHANGED <<m_state, m_thread, cpc, oldState, joinTarget, dtor,
                   timedOut, detached, debugBuild, afterStop, request, everRun,
                   pendingRuns, invoked, lastRun, disturbed,
                   casLog, runsAhead, idbVars, profVars,
                   overlapped>>

\* m_condition.wait_for(lock, exitDelay, pred): while (!pred()) wait_until(...)
\* pred() is m_state != Sleeping, evaluated with the mutex held.  FALSE: the
\* mutex is released and the thread blocks, atomically.  TRUE: wait_for
\* returns and the unique_lock unlocks at the end of the block.
WaitPred(w) ==
    /\ wpc[w] = "pred"
    /\ mutexOwner = WorkerId(w)
    /\ mutexOwner' = NoOwner
    /\ wpc' = [wpc EXCEPT ![w] = IF m_state # "Sleeping" THEN "cas3" ELSE "waiting"]
    /\ UNCHANGED <<m_state, m_thread, cpc, oldState, joinTarget, dtor,
                   timedOut, detached, debugBuild, afterStop, request, everRun,
                   pendingRuns, invoked, lastRun, disturbed,
                   casLog, runsAhead, idbVars, profVars,
                   overlapped>>

\* wait_until returns cv_status::timeout: exitDelay has elapsed.
WaitTimeout(w) ==
    /\ wpc[w] = "waiting"
    /\ wpc' = [wpc EXCEPT ![w] = "relock"]
    /\ timedOut' = [timedOut EXCEPT ![w] = TRUE]
    /\ UNCHANGED <<m_state, mutexOwner, m_thread, cpc, oldState, joinTarget,
                   dtor, detached, debugBuild, afterStop, request, everRun,
                   pendingRuns, invoked, lastRun, disturbed,
                   casLog, runsAhead, idbVars, profVars,
                   overlapped>>

\* A condition variable may wake without notify and without timeout.
WaitSpurious(w) ==
    /\ wpc[w] = "waiting"
    /\ wpc' = [wpc EXCEPT ![w] = "relock"]
    /\ timedOut' = [timedOut EXCEPT ![w] = FALSE]
    /\ UNCHANGED <<m_state, mutexOwner, m_thread, cpc, oldState, joinTarget,
                   dtor, detached, debugBuild, afterStop, request, everRun,
                   pendingRuns, invoked, lastRun, disturbed,
                   casLog, runsAhead, idbVars, profVars,
                   overlapped>>

\* Variant of WaitRelock in which wait_for returns after any wakeup, the
\* predicate not being tested again.
WaitRelockReturns(w) ==
    /\ wpc[w] = "relock"
    /\ mutexOwner = NoOwner
    /\ mutexOwner' = WorkerId(w)
    /\ wpc' = [wpc EXCEPT ![w] = "unlock"]
    /\ UNCHANGED <<m_state, m_thread, cpc, oldState, joinTarget, dtor,
                   timedOut, detached, debugBuild, afterStop, request, everRun,
                   pendingRuns, invoked, lastRun, disturbed,
                   casLog, runsAhead, idbVars, profVars,
                   overlapped>>

\* wait_until re-acquires the mutex before it returns.  After a timeout
\* wait_for returns pred(); after a wakeup the loop tests pred() again.
WaitRelock(w) ==
    /\ wpc[w] = "relock"
    /\ mutexOwner = NoOwner
    /\ mutexOwner' = WorkerId(w)
    /\ wpc' = [wpc EXCEPT ![w] = IF timedOut[w] THEN "unlock" ELSE "pred"]
    /\ UNCHANGED <<m_state, m_thread, cpc, oldState, joinTarget, dtor,
                   timedOut, detached, debugBuild, afterStop, request, everRun,
                   pendingRuns, invoked, lastRun, disturbed,
                   casLog, runsAhead, idbVars, profVars,
                   overlapped>>

\* return pred(): the result is not used; the unique_lock unlocks.
WaitUnlock(w) ==
    /\ wpc[w] = "unlock"
    /\ mutexOwner = WorkerId(w)
    /\ mutexOwner' = NoOwner
    /\ wpc' = [wpc EXCEPT ![w] = "cas3"]
    /\ UNCHANGED <<m_state, m_thread, cpc, oldState, joinTarget, dtor,
                   timedOut, detached, debugBuild, afterStop, request, everRun,
                   pendingRuns, invoked, lastRun, disturbed,
                   casLog, runsAhead, idbVars, profVars,
                   overlapped>>

\* Variant of Cas3 whose expected value is Running instead of Sleeping.
Cas3WrongExpected(w, spurious) ==
    /\ wpc[w] = "cas3"
    /\ casLog' = [casLog EXCEPT ![w] = IF CasSucceeds("Running", spurious) THEN "none"
                                       ELSE Logged(w, "Running", spurious, FALSE)]
    /\ IF CasSucceeds("Running", spurious)
         THEN /\ m_state' = "Exited"
              /\ wpc' = [wpc EXCEPT ![w] = AfterExit(w)]
              /\ detached' = [detached EXCEPT ![w] = FALSE]
         ELSE /\ wpc' = [wpc EXCEPT ![w] = "cas4"]
              /\ UNCHANGED <<m_state, detached>>
    /\ timedOut' = [timedOut EXCEPT ![w] = @ /\ m_state = "Sleeping"]
    /\ UNCHANGED <<mutexOwner, m_thread, cpc, oldState, joinTarget, dtor,
                   debugBuild, afterStop, request, everRun,
                   pendingRuns, invoked, lastRun, disturbed,
                   runsAhead, idbVars, profVars, overlapped>>

\* expectedState = Sleeping;
\* if (m_state.compare_exchange_weak(expectedState, Exited)) return;
Cas3(w, spurious) ==
    /\ wpc[w] = "cas3"
    /\ casLog' = [casLog EXCEPT ![w] = IF CasSucceeds("Sleeping", spurious) THEN "none"
                                       ELSE Logged(w, "Sleeping", spurious, FALSE)]
    /\ IF CasSucceeds("Sleeping", spurious)
         THEN /\ m_state' = "Exited"
              /\ wpc' = [wpc EXCEPT ![w] = AfterExit(w)]
              /\ detached' = [detached EXCEPT ![w] = FALSE]
         ELSE /\ wpc' = [wpc EXCEPT ![w] = "cas4"]
              /\ UNCHANGED <<m_state, detached>>
    /\ timedOut' = [timedOut EXCEPT ![w] = @ /\ m_state = "Sleeping"]
    /\ UNCHANGED <<mutexOwner, m_thread, cpc, oldState, joinTarget, dtor,
                   debugBuild, afterStop, request, everRun,
                   pendingRuns, invoked, lastRun, disturbed,
                   runsAhead, idbVars, profVars, overlapped>>

\* Variant of Cas4 that goes round the loop after a successful exchange.
Cas4NoReturn(w, spurious) ==
    /\ wpc[w] = "cas4"
    /\ casLog' = [casLog EXCEPT ![w] = "none"]
    /\ IF CasSucceeds("ExitRequested", spurious)
         THEN m_state' = "Exited"
         ELSE UNCHANGED m_state
    /\ wpc' = [wpc EXCEPT ![w] = "cas1"]
    /\ UNCHANGED <<mutexOwner, m_thread, cpc, oldState, joinTarget, dtor,
                   timedOut, detached, debugBuild, afterStop, request, everRun,
                   pendingRuns, invoked, lastRun, disturbed,
                   runsAhead, idbVars, profVars, overlapped>>

\* Variant of Cas4 whose failure resumes the loop at the second exchange.
Cas4SkipsFirst(w, spurious) ==
    /\ wpc[w] = "cas4"
    /\ casLog' = [casLog EXCEPT ![w] = "none"]
    /\ IF CasSucceeds("ExitRequested", spurious)
         THEN /\ m_state' = "Exited"
              /\ wpc' = [wpc EXCEPT ![w] = AfterExit(w)]
              /\ detached' = [detached EXCEPT ![w] = FALSE]
         ELSE /\ wpc' = [wpc EXCEPT ![w] = "cas2"]
              /\ UNCHANGED <<m_state, detached>>
    /\ UNCHANGED <<mutexOwner, m_thread, cpc, oldState, joinTarget, dtor,
                   timedOut, debugBuild, afterStop, request, everRun,
                   pendingRuns, invoked, lastRun, disturbed,
                   runsAhead, idbVars, profVars, overlapped>>

\* expectedState = ExitRequested;
\* if (m_state.compare_exchange_weak(expectedState, Exited)) return;
\* otherwise the while (1) loop goes round.
Cas4(w, spurious) ==
    /\ wpc[w] = "cas4"
    /\ casLog' = [casLog EXCEPT ![w] = "none"]
    /\ IF CasSucceeds("ExitRequested", spurious)
         THEN /\ m_state' = "Exited"
              /\ wpc' = [wpc EXCEPT ![w] = AfterExit(w)]
              /\ detached' = [detached EXCEPT ![w] = FALSE]
         ELSE /\ wpc' = [wpc EXCEPT ![w] = "cas1"]
              /\ UNCHANGED <<m_state, detached>>
    /\ UNCHANGED <<mutexOwner, m_thread, cpc, oldState, joinTarget, dtor,
                   timedOut, debugBuild, afterStop, request, everRun,
                   pendingRuns, invoked, lastRun, disturbed,
                   runsAhead, idbVars, profVars, overlapped>>

\* ------------------------------------------------------- specifications
\* A call made while no other call is in progress.
SerialRunCall(c) == ~StopInProgress /\ RunCall(c)
SerialStopCall(c, asDtor) == ~CallInProgress /\ StopCall(c, asDtor)

\* Any interleaving: run() and stop() calls may overlap in every way.  The
\* destructor alone comes after every other call has returned: the object
\* does not outlive it.
Next ==
    \/ \E c \in Callers : RunCall(c)
    \/ \E c \in Callers : StopCall(c, FALSE)
    \/ \E c \in Callers : SerialStopCall(c, TRUE)
    \/ \E c \in Callers : RunExchange(c)
    \/ \E c \in Callers : RunLock(c)
    \/ \E c \in Callers : RunNotify(c)
    \/ \E c \in Callers : RunAssert(c)
    \/ \E c \in Callers : RunDetach(c)
    \/ \E c \in Callers : RunSpawn(c)
    \/ \E c \in Callers : StopLock(c)
    \/ \E c \in Callers : StopNotify(c)
    \/ \E c \in Callers : StopJoinable(c)
    \/ \E c \in Callers : StopJoined(c)
    \/ \E w \in Workers : \E spurious \in BOOLEAN : Cas1(w, spurious)
    \/ \E w \in Workers : CallReturns(w)
    \/ \E w \in Workers : \E spurious \in BOOLEAN : Cas2(w, spurious)
    \/ \E w \in Workers : WaitLock(w)
    \/ \E w \in Workers : WaitPred(w)
    \/ \E w \in Workers : WaitTimeout(w)
    \/ \E w \in Workers : WaitSpurious(w)
    \/ \E w \in Workers : WaitRelock(w)
    \/ \E w \in Workers : WaitUnlock(w)
    \/ \E w \in Workers : \E spurious \in BOOLEAN : Cas3(w, spurious)
    \/ \E w \in Workers : \E spurious \in BOOLEAN : Cas4(w, spurious)

Spec == Init /\ [][Next]_vars

\* Supported usage: the client orders stop() and the destructor against every
\* other call; run() may be called from any thread at any time.
SerialNext ==
    \/ \E c \in Callers : SerialRunCall(c)
    \/ \E c \in Callers : SerialStopCall(c, FALSE)
    \/ \E c \in Callers : SerialStopCall(c, TRUE)
    \/ \E c \in Callers : RunExchange(c)
    \/ \E c \in Callers : RunLock(c)
    \/ \E c \in Callers : RunNotify(c)
    \/ \E c \in Callers : RunAssert(c)
    \/ \E c \in Callers : RunDetach(c)
    \/ \E c \in Callers : RunSpawn(c)
    \/ \E c \in Callers : StopLock(c)
    \/ \E c \in Callers : StopNotify(c)
    \/ \E c \in Callers : StopJoinable(c)
    \/ \E c \in Callers : StopJoined(c)
    \/ \E w \in Workers : \E spurious \in BOOLEAN : Cas1(w, spurious)
    \/ \E w \in Workers : CallReturns(w)
    \/ \E w \in Workers : \E spurious \in BOOLEAN : Cas2(w, spurious)
    \/ \E w \in Workers : WaitLock(w)
    \/ \E w \in Workers : WaitPred(w)
    \/ \E w \in Workers : WaitTimeout(w)
    \/ \E w \in Workers : WaitSpurious(w)
    \/ \E w \in Workers : WaitRelock(w)
    \/ \E w \in Workers : WaitUnlock(w)
    \/ \E w \in Workers : \E spurious \in BOOLEAN : Cas3(w, spurious)
    \/ \E w \in Workers : \E spurious \in BOOLEAN : Cas4(w, spurious)

SerialSpec == Init /\ [][SerialNext]_vars

\* Calls issued one after another: each is made after the previous one has
\* returned, as by a single controller thread.
SequentialRunCall(c) == ~CallInProgress /\ RunCall(c)

SequentialNext ==
    \/ \E c \in Callers : SequentialRunCall(c)
    \/ \E c \in Callers : SerialStopCall(c, FALSE)
    \/ \E c \in Callers : SerialStopCall(c, TRUE)
    \/ \E c \in Callers : RunExchange(c)
    \/ \E c \in Callers : RunLock(c)
    \/ \E c \in Callers : RunNotify(c)
    \/ \E c \in Callers : RunAssert(c)
    \/ \E c \in Callers : RunDetach(c)
    \/ \E c \in Callers : RunSpawn(c)
    \/ \E c \in Callers : StopLock(c)
    \/ \E c \in Callers : StopNotify(c)
    \/ \E c \in Callers : StopJoinable(c)
    \/ \E c \in Callers : StopJoined(c)
    \/ \E w \in Workers : \E spurious \in BOOLEAN : Cas1(w, spurious)
    \/ \E w \in Workers : CallReturns(w)
    \/ \E w \in Workers : \E spurious \in BOOLEAN : Cas2(w, spurious)
    \/ \E w \in Workers : WaitLock(w)
    \/ \E w \in Workers : WaitPred(w)
    \/ \E w \in Workers : WaitTimeout(w)
    \/ \E w \in Workers : WaitSpurious(w)
    \/ \E w \in Workers : WaitRelock(w)
    \/ \E w \in Workers : WaitUnlock(w)
    \/ \E w \in Workers : \E spurious \in BOOLEAN : Cas3(w, spurious)
    \/ \E w \in Workers : \E spurious \in BOOLEAN : Cas4(w, spurious)

SequentialSpec == Init /\ [][SequentialNext]_vars

\* ------------------------------------------------------------- fairness
\* One step of controller thread c inside run() or stop().
CallerStep(c) ==
    \/ RunExchange(c) \/ RunLock(c) \/ RunNotify(c) \/ RunAssert(c)
    \/ RunDetach(c) \/ RunSpawn(c)
    \/ StopLock(c) \/ StopNotify(c) \/ StopJoinable(c) \/ StopJoined(c)

\* Controller thread c acquires m_conditionMutex.
CallerLock(c) == RunLock(c) \/ StopLock(c)

\* One step of worker thread w other than the end of its wait.
WorkerStep(w) ==
    \/ Cas1(w, FALSE) \/ CallReturns(w) \/ Cas2(w, FALSE)
    \/ WaitLock(w) \/ WaitPred(w) \/ WaitRelock(w) \/ WaitUnlock(w)
    \/ Cas3(w, FALSE) \/ Cas4(w, FALSE)

\* A compare_exchange_weak of w that finds the expected value and succeeds.
CasSuccess(w) ==
    \/ m_state = "RunRequested" /\ Cas1(w, FALSE)
    \/ m_state = "Running" /\ Cas2(w, FALSE)
    \/ m_state = "Sleeping" /\ Cas3(w, FALSE)
    \/ m_state = "ExitRequested" /\ Cas4(w, FALSE)

\* Every controller thread that can take a step eventually takes one, and
\* one that tries to lock m_conditionMutex eventually gets it.
CallersScheduled ==
    /\ \A c \in Callers : WF_vars(CallerStep(c))
    /\ \A c \in Callers : SF_vars(CallerLock(c))

\* Worker threads are scheduled, and get m_conditionMutex when they try.
WorkersScheduled == SF_vars(\E w \in Workers : WorkerStep(w))

\* Threads are scheduled; the callable returns; exitDelay elapses whatever
\* else wakes the waiter; compare_exchange_weak does not fail spuriously for
\* ever.  Nothing obliges the client to call run() or stop().
Fairness ==
    /\ CallersScheduled
    /\ WorkersScheduled
    /\ SF_vars(\E w \in Workers : WaitTimeout(w))
    /\ SF_vars(\E w \in Workers : CasSuccess(w))

FairSerialSpec == SerialSpec /\ Fairness

\* A step by which worker w gives up m_conditionMutex.
MutexRelease(w) == WaitPred(w) \/ WaitUnlock(w)

\* Only this much is assumed of the worker: while it holds m_conditionMutex
\* it is scheduled.  The callable need not return and exitDelay need not
\* elapse.  Controller threads take their steps.
CallerFairness ==
    /\ CallersScheduled
    /\ WF_vars(\E w \in Workers : MutexRelease(w))

CallerFairSpec == SerialSpec /\ CallerFairness

\* Every thread that can take a step eventually takes one, but exitDelay
\* need not ever elapse and a compare_exchange_weak may always fail.
WakeFairness == CallersScheduled /\ WorkersScheduled

WakeFairSpec == SerialSpec /\ WakeFairness

\* =============================================================== claims
\* stop() of controller thread c returns in this step.
StopReturns(c) == InStop(c) /\ cpc'[c] \in {"idle", "destroyed"}

\* C1: for every interleaving of run() and stop() calls, a run() racing a
\* stop() included, at most one invocation of the callable is in progress.
C1_MutualExclusion == Cardinality({w \in Workers : Invoking(w)}) <= 1

C3_StopLeavesExited ==
    [][\A c \in Callers : StopReturns(c) => m_state' = "Exited"]_vars

C5_NoRunRequestLost ==
    (request = "pending") ~> (request = "none" \/ request = "cancelled")

\* C6: a run() that finds the worker gone after its idle exit (m_state
\* Exited), or that hits the Sleeping -> Exited exchange (m_state Sleeping),
\* is followed by a new invocation of the callable, unless a stop() is issued
\* afterwards; the run() that found Exited returns with a thread started that
\* was not running before.
C6_RespawnAfterIdleExit ==
    /\ (request = "pending" /\ \E c \in Callers :
            InRun(c) /\ oldState[c] \in {"Exited", "Sleeping"})
         ~> (request = "none" \/ request = "cancelled")
    /\ [][\A c \in Callers :
            InRun(c) /\ oldState[c] = "Exited" /\ cpc'[c] = "idle"
              => /\ m_thread' # NoThread
                 /\ wpc[m_thread'] = "free"
                 /\ wpc'[m_thread'] = "cas1"]_vars
\* run() found Exited and the handle of the self-terminated worker is still
\* in m_thread when it comes to detach it.
C6_Witness ==
    \E c \in Callers : /\ cpc[c] = "run_detach" /\ oldState[c] = "Exited"
                       /\ m_thread # NoThread /\ wpc[m_thread] = "done"

\* C7: a spawned worker that gets no further call leaves threadRunLoop with
\* m_state Exited; a stop() issued after that (it read Exited) finds the
\* thread finished when it joins it.
C7_IdleSelfTermination ==
    /\ (\E w \in Workers : InRunLoop(w))
         ~> ((NoWorkerInLoop /\ m_state = "Exited") \/ CallInProgress)
    /\ [](\A c \in Callers : cpc[c] = "stop_joining" /\ oldState[c] = "Exited"
              => wpc[joinTarget[c]] = "done")
\* stop() joins a worker that had already terminated by itself.
C7_Witness ==
    \E c \in Callers : /\ cpc[c] = "stop_joining" /\ oldState[c] = "Exited"
                       /\ wpc[joinTarget[c]] = "done"

\* C8: a stop() on an instance that was never run, or one that follows a
\* stop() with no run() in between, finds no joinable thread (it returns in
\* its next step), and no worker thread exists while it runs.
C8_StopIdempotent ==
    \A c \in Callers : InStop(c) /\ (afterStop \/ ~everRun)
        => /\ cpc[c] = "stop_joinable"
           /\ m_thread = NoThread
           /\ \A w \in Workers : wpc[w] = "free"
\* A second stop() in succession, on an instance that has been run.
C8_Witness == everRun /\ afterStop /\ \E c \in Callers : InStop(c)

\* C9: at every instant at most one worker thread is executing threadRunLoop.
C9_SingleWorker == Cardinality({w \in Workers : InRunLoop(w)}) <= 1

C11_Coalescing ==
    [][\A w \in Workers : ~Invoking(w) /\ Invoking(w)'
          => pendingRuns >= 1 /\ pendingRuns' = 0]_vars
\* Two run() calls have taken effect during one execution of the callable.
C11_Witness == pendingRuns >= 2 /\ \E w \in Workers : Invoking(w)

\* C12: run() never blocks on the worker: every run() call comes to its end
\* whatever the worker does (the callable need not return, the wait need not
\* time out), because the worker holds m_conditionMutex neither inside the
\* callable nor while it is blocked in the wait.
C12_RunNeverBlocks ==
    /\ \A c \in Callers : InRun(c) ~> ~InRun(c)
    /\ [](\A w \in Workers :
            wpc[w] \in {"call", "waiting"} => mutexOwner # WorkerId(w))
\* run() read Sleeping and finds m_conditionMutex held by the worker.
C12_Witness ==
    \E c \in Callers, w \in Workers :
        cpc[c] = "run_lock" /\ mutexOwner = WorkerId(w)

\* The stop() of c that returns in this step was called after a run() call
\* made on an idle instance had returned, with no other call in between.
StopAfterLoneRun(c) == StopReturns(c) /\ lastRun = "idle" /\ ~afterStop

\* C13 (as claimed): when run() is called on an idle instance and stop() is
\* called after it has returned, the callable has been invoked exactly once
\* by the time stop() returns.
C13_RunThenStopOnce ==
    [][\A c \in Callers : StopAfterLoneRun(c) => invoked' = 1]_vars

\* C13 (amended): when run() is called on an idle instance and stop() is
\* called after it has returned, then by the time stop() returns the callable
\* has been invoked at most once and no worker thread is left in
\* threadRunLoop.
C13_RunThenStopAtMostOnce ==
    [][\A c \in Callers : StopAfterLoneRun(c)
          => invoked' <= 1 /\ NoWorkerInLoop']_vars
\* Such a stop() has returned and the callable was invoked in between.
C13_Witness == lastRun = "idle" /\ afterStop /\ invoked = 1

C16_ExitRequestedKeepsWorker ==
    [][\A c \in Callers : InRun(c) /\ oldState[c] = "ExitRequested"
          => Cardinality({w \in Workers : InRunLoop(w)}') <= 1]_vars

\* C17: for run() and stop() calls issued one after another, BASSERT(oldState
\* == Exited) in runSlowCase never fails: whenever run() comes to the
\* assertion, the value its exchange returned is Exited.
C17_AssertionHolds ==
    \A c \in Callers : cpc[c] = "run_assert" => oldState[c] = "Exited"

FourthFails(w) ==
    /\ wpc[w] = "cas4"
    /\ wpc'[w] \in LoopPcs \ {"cas4"}
    /\ casLog[w] # "succeeded"
\* None of the iteration's attempts, the fourth included, failed while m_state
\* held the value it expected.
NoSpuriousFailure(w) == casLog[w] = "failed" /\ m_state # "ExitRequested"

FastPath(c) == RunCall(c) /\ m_state = "RunRequested"

\* C20: a run() that reads m_state as RunRequested returns at once: it
\* writes neither m_state nor its own oldState, takes no lock and wakes no
\* waiter, and neither joins, detaches nor spawns a worker thread.
C20_FastPathFrame ==
    [][\A c \in Callers :
         FastPath(c) =>
             /\ cpc'[c] = "idle"
             /\ UNCHANGED <<m_state, mutexOwner, m_thread, cpc, oldState,
                            joinTarget, dtor, wpc, timedOut, detached>>]_vars

\* The last run() took the fast path and the request it met still stands.
C20_Witness ==
    lastRun = "fast" /\ m_state = "RunRequested" /\ ~CallInProgress


\* ---------------------------------------------------------------- C21
\* C21: the callable is entered only by a worker whose RunRequested ->
\* Running exchange has just succeeded; the invocations begun never
\* outnumber the run() calls made, and none has begun on an instance on
\* which run() was never called.
C21_NoSpontaneousExecution ==
    /\ [](runsAhead >= 0)
    /\ [](~everRun => runsAhead = 0 /\ \A w \in Workers : wpc[w] = "free")
    /\ [][\A w \in Workers :
            ~Invoking(w) /\ Invoking(w)' =>
                wpc[w] = "cas1" /\ m_state = "RunRequested" /\ m_state' = "Running"]_vars

\* An invocation is in progress and every call made so far is matched.
C21_Witness == everRun /\ runsAhead = 0 /\ \E w \in Workers : Invoking(w)


Get(h, object, keyPathElement) ==
    IF object.kind = "string" /\ keyPathElement = "length"
      THEN [found |-> TRUE, result |-> JSNumber]
    ELSE IF ~IsObject(object)
      THEN [found |-> FALSE, result |-> JSUndefined]
    ELSE IF h[object.ref].props[keyPathElement] = Absent
      THEN [found |-> FALSE, result |-> JSUndefined]
    ELSE [found |-> TRUE, result |-> h[object.ref].props[keyPathElement]]

\* canSet(object, keyPathElement)
CanSet(object, keyPathElement) == IsObject(object)

\* set(exec, object, keyPathElement, jsValue): whether the property was put,
\* and the heap afterwards.
Set(h, object, keyPathElement, jsValue) ==
    IF ~CanSet(object, keyPathElement)
      THEN [done |-> FALSE, heap |-> h]
      ELSE [done |-> TRUE,
            heap |-> [h EXCEPT ![object.ref].props[keyPathElement] = jsValue]]

\* toJS(state, globalObject, key) for a Number or String key.
ToJS(k) == IF k.type = "Number" THEN JSNumber
           ELSE IF k.type = "String" THEN JSString
           ELSE JSUndefined

\* The loop of ensureNthValueOnKeyPath from element i on (elements are
\* numbered from 1; the loop runs while i <= index): the value reached, or
\* undefined, and the heap afterwards.
RECURSIVE EnsureFrom(_, _, _, _, _)
EnsureFrom(h, currentValue, elements, i, index) ==
    IF i > index THEN [value |-> currentValue, heap |-> h]
    ELSE LET got == Get(h, currentValue, elements[i])
             h1 == Append(h, EmptyObject)
             object == JSReference(Len(h1))
             put == Set(h1, currentValue, elements[i], object)
         IN  IF got.found
               THEN EnsureFrom(h, got.result, elements, i + 1, index)
             ELSE IF ~put.done
               THEN [value |-> JSUndefined, heap |-> h1]
             ELSE EnsureFrom(put.heap, object, elements, i + 1, index)

\* ensureNthValueOnKeyPath(exec, rootValue, keyPathElements, index)
EnsureNthValueOnKeyPath(h, rootValue, elements, index) ==
    EnsureFrom(h, rootValue, elements, 1, index)

\* The loop of canInjectNthValueOnKeyPath from element i on.
RECURSIVE CanInjectFrom(_, _, _, _, _)
CanInjectFrom(h, currentValue, elements, i, index) ==
    IF i > index THEN TRUE
    ELSE LET got == Get(h, currentValue, elements[i])
         IN  IF ~got.found THEN CanSet(currentValue, elements[i])
             ELSE CanInjectFrom(h, got.result, elements, i + 1, index)

\* canInjectNthValueOnKeyPath(exec, rootValue, keyPathElements, index)
CanInjectNthValueOnKeyPath(h, rootValue, elements, index) ==
    IF ~IsObject(rootValue) THEN FALSE
    ELSE CanInjectFrom(h, rootValue, elements, 1, index)

\* canInjectIDBKeyIntoScriptValue(execState, scriptValue, keyPath), the key
\* path given by its elements.
CanInjectIDBKeyIntoScriptValue(h, value, elements) ==
    IF Len(elements) = 0 THEN FALSE
    ELSE CanInjectNthValueOnKeyPath(h, value, elements, Len(elements) - 1)

\* injectIDBKeyIntoScriptValue(exec, keyData, value, keyPath): what it
\* returns, and the heap afterwards.  k: what keyData.maybeCreateIDBKey()
\* gives.
InjectIDBKeyIntoScriptValue(h, k, value, elements) ==
    IF Len(elements) = 0 THEN [result |-> FALSE, heap |-> h]
    ELSE LET parent == EnsureNthValueOnKeyPath(h, value, elements, Len(elements) - 1)
             put == Set(parent.heap, parent.value, elements[Len(elements)], ToJS(k))
         IN  IF parent.value = JSUndefined THEN [result |-> FALSE, heap |-> parent.heap]
             ELSE IF k = NullKey THEN [result |-> FALSE, heap |-> parent.heap]
             ELSE IF ~put.done THEN [result |-> FALSE, heap |-> parent.heap]
             ELSE [result |-> TRUE, heap |-> put.heap]

\* Key paths of one to MaxPath elements.
RECURSIVE PathsOfLength(_)
PathsOfLength(n) ==
    IF n = 0 THEN {<<>>}
    ELSE {Append(p, e) : p \in PathsOfLength(n - 1), e \in Names}
KeyPaths == UNION {PathsOfLength(n) : n \in 1..MaxPath}

\* The values a script stores: primitives and references to its objects.
StoredValues == {JSUndefined, JSNumber, JSString} \cup {JSReference(i) : i \in 1..Len(heap)}

\* The properties set so far.
PropsSet == {<<i, n>> \in (1..Len(heap)) \X Names : heap[i].props[n] # Absent}

\* A script starts with empty objects, as many as the longest key path has
\* elements.
KeyPathInit ==
    /\ Constructed
    /\ debugBuild = FALSE
    /\ heap = [i \in 1..MaxPath |-> EmptyObject]
    /\ scriptValue = JSUndefined
    /\ keyPathElements = <<>>
    /\ canInject = FALSE
    /\ injected = FALSE
    /\ key = NullKey
    /\ idbStep = "script"
    /\ NoProfile

\* The script sets a property: object[name] = value.
ScriptPut(i, name, value) ==
    /\ idbStep = "script"
    /\ Cardinality(PropsSet) < MaxProps
    /\ heap[i].props[name] = Absent
    /\ heap' = [heap EXCEPT ![i].props[name] = value]
    /\ UNCHANGED <<taskVars, profVars, scriptValue, keyPathElements, canInject, injected,
                   key, idbStep>>

\* canInjectIDBKeyIntoScriptValue is called.
CanInjectCall(value, elements) ==
    /\ idbStep = "script"
    /\ scriptValue' = value
    /\ keyPathElements' = elements
    /\ canInject' = CanInjectIDBKeyIntoScriptValue(heap, value, elements)
    /\ idbStep' = "checked"
    /\ UNCHANGED <<taskVars, profVars, heap, injected, key>>

\* injectIDBKeyIntoScriptValue is called with the same value and key path.
InjectCall(k) ==
    /\ idbStep = "checked"
    /\ LET r == InjectIDBKeyIntoScriptValue(heap, k, scriptValue, keyPathElements)
       IN  /\ injected' = r.result
           /\ heap' = r.heap
    /\ key' = k
    /\ idbStep' = "injected"
    /\ UNCHANGED <<taskVars, profVars, scriptValue, keyPathElements, canInject>>

KeyPathNext ==
    \/ \E i \in 1..Len(heap), name \in Names, value \in StoredValues :
           ScriptPut(i, name, value)
    \/ \E value \in {JSNumber, JSReference(1)}, elements \in KeyPaths :
           CanInjectCall(value, elements)
    \/ \E k \in {NullKey, IDBKeyOf("Number"), IDBKeyOf("String")} : InjectCall(k)

KeyPathSpec == KeyPathInit /\ [][KeyPathNext]_vars

\* ---------------------------------------------------------------- C23
\* C23: whenever canInjectIDBKeyIntoScriptValue returned true,
\* injectIDBKeyIntoScriptValue with the same value and key path and a valid
\* key returns true.
C23_CanInjectImpliesInject ==
    idbStep = "injected" /\ canInject /\ key # NullKey => injected


\* ------------------------------------------------ createIDBKeyFromValue
\* Vector<JSArray*>::contains
Contains(stack, array) == \E n \in 1..Len(stack) : stack[n] = array

\* Vector<JSArray*>::removeLast
RemoveLast(stack) == SubSeq(stack, 1, Len(stack) - 1)

RECURSIVE CreateIDBKeyFromValueOnStack(_, _, _)

\* for (size_t i = 0; i < length; i++) ... subkeys.append(...), from item i
\* on (items are numbered from 1): the subkeys, and the stack afterwards.
RECURSIVE Subkeys(_, _, _, _)
Subkeys(h, items, i, stack) ==
    IF i > Len(items) THEN [subkeys |-> <<>>, stack |-> stack]
    ELSE LET subkey == CreateIDBKeyFromValueOnStack(h, items[i], stack)
             rest == Subkeys(h, items, i + 1, subkey.stack)
         IN  [subkeys |-> <<IF subkey.key = NullKey THEN InvalidKey ELSE subkey.key>>
                            \o rest.subkeys,
              stack |-> rest.stack]

\* Variant of ArrayKey that leaves the array on the stack.
ArrayKeyNoRemoveLast(h, array, stack) ==
    IF Contains(stack, array) THEN [key |-> NullKey, stack |-> stack]
    ELSE IF Len(stack) >= maximumDepth THEN [key |-> NullKey, stack |-> stack]
    ELSE LET converted == Subkeys(h, h[array].items, 1, Append(stack, array))
         IN  [key |-> IDBKeyArray(converted.subkeys), stack |-> converted.stack]

\* The branch of createIDBKeyFromValue for a JSArray (lines 303-323).
ArrayKey(h, array, stack) ==
    IF Contains(stack, array) THEN [key |-> NullKey, stack |-> stack]
    ELSE IF Len(stack) >= maximumDepth THEN [key |-> NullKey, stack |-> stack]
    ELSE LET converted == Subkeys(h, h[array].items, 1, Append(stack, array))
         IN  [key |-> IDBKeyArray(converted.subkeys),
              stack |-> RemoveLast(converted.stack)]

\* createIDBKeyFromValue(exec, value, stack): the key, nullptr for none, and
\* the stack afterwards.
CreateIDBKeyFromValueOnStack(h, value, stack) ==
    IF value.kind = "number" THEN [key |-> IDBKeyOf("Number"), stack |-> stack]
    ELSE IF value.kind = "string" THEN [key |-> IDBKeyOf("String"), stack |-> stack]
    ELSE IF value.kind = "date" THEN [key |-> IDBKeyOf("Date"), stack |-> stack]
    ELSE IF value.kind = "object" /\ h[value.ref].isArray
      THEN ArrayKey(h, value.ref, stack)
    ELSE [key |-> NullKey, stack |-> stack]

\* createIDBKeyFromValue(exec, value)
CreateIDBKeyFromValue(h, value) ==
    LET created == CreateIDBKeyFromValueOnStack(h, value, <<>>)
    IN  IF created.key # NullKey THEN created.key ELSE InvalidKey

\* Enough arrays to nest them one deeper than maximumDepth allows.
NumArrays == maximumDepth + 1

\* A script starts with empty arrays and, last in the heap, one plain object.
KeyInit ==
    /\ Constructed
    /\ debugBuild = FALSE
    /\ heap = [i \in 1..(NumArrays + 1) |-> IF i <= NumArrays THEN EmptyArray
                                            ELSE EmptyObject]
    /\ scriptValue = JSUndefined
    /\ keyPathElements = <<>>
    /\ canInject = FALSE
    /\ injected = FALSE
    /\ key = NullKey
    /\ idbStep = "script"
    /\ NoProfile

\* The items pushed so far, over all arrays.
RECURSIVE ItemsPushed(_)
ItemsPushed(n) == IF n = 0 THEN 0 ELSE Len(heap[n].items) + ItemsPushed(n - 1)

\* The script appends an item: array.push(value).
ScriptPush(array, value) ==
    /\ idbStep = "script"
    /\ heap[array].isArray
    /\ ItemsPushed(Len(heap)) < MaxItems
    /\ heap' = [heap EXCEPT ![array].items = Append(@, value)]
    /\ UNCHANGED <<taskVars, profVars, scriptValue, keyPathElements, canInject, injected,
                   key, idbStep>>

\* createIDBKeyFromValue is called.
CreateKeyCall(value) ==
    /\ idbStep = "script"
    /\ scriptValue' = value
    /\ key' = CreateIDBKeyFromValue(heap, value)
    /\ idbStep' = "converted"
    /\ UNCHANGED <<taskVars, profVars, heap, keyPathElements, canInject, injected>>

\* What a script passes around: primitives, dates, its arrays and its object.
KeyInputs ==
    {JSUndefined, JSNumber, JSNaN, JSString, JSDate, JSInvalidDate}
        \cup {JSReference(i) : i \in 1..Len(heap)}

KeyNext ==
    \/ \E array \in 1..Len(heap), value \in {JSNumber} \cup {JSReference(i) : i \in 1..Len(heap)} :
           ScriptPush(array, value)
    \/ \E value \in KeyInputs : CreateKeyCall(value)

KeySpec == KeyInit /\ [][KeyNext]_vars


\* ---------------------------------------------------------------- C24
\* The key of a value by the nesting of arrays alone.  enclosing: the arrays
\* the value lies within.  An array that is one of them, or that lies within
\* maximumDepth of them already, gives Invalid; so does a value that is no
\* number, string, date or array.
RECURSIVE KeyByNesting(_, _, _)
KeyByNesting(h, value, enclosing) ==
    IF value.kind = "number" THEN IDBKeyOf("Number")
    ELSE IF value.kind = "string" THEN IDBKeyOf("String")
    ELSE IF value.kind = "date" THEN IDBKeyOf("Date")
    ELSE IF value.kind # "object" THEN InvalidKey
    ELSE IF ~h[value.ref].isArray THEN InvalidKey
    ELSE IF value.ref \in enclosing \/ Cardinality(enclosing) >= maximumDepth
      THEN InvalidKey
    ELSE IDBKeyArray([n \in 1..Len(h[value.ref].items) |->
                         KeyByNesting(h, h[value.ref].items[n],
                                      enclosing \cup {value.ref})])

\* C24: createIDBKeyFromValue returns on every value, cyclic ones included,
\* and never returns nullptr.  An array met again inside itself, or nested
\* deeper than maximumDepth, becomes an Invalid subkey (an Invalid key at top
\* level); an array met again beside itself is converted again.
C24_KeyFromAnyValue ==
    idbStep = "converted" =>
        key # NullKey /\ key = KeyByNesting(heap, scriptValue, {})

\* An array that holds another array twice, then itself, has been converted.
C24_Witness ==
    /\ idbStep = "converted"
    /\ scriptValue.kind = "object"
    /\ LET items == heap[scriptValue.ref].items
       IN  /\ Len(items) = 3
           /\ items[1].kind = "object" /\ heap[items[1].ref].isArray
           /\ items[1] # scriptValue
           /\ items[2] = items[1]
           /\ items[3] = scriptValue
           /\ key.array[1].type = "Array"
           /\ key.array[2].type = "Array"
           /\ key.array[3] = InvalidKey


\* ------------------------------------------------------ ProfileGenerator
\* ProfileNode::create(callerCallFrame, callIdentifier, parentNode)
CreateNode(callIdentifier, parent) ==
    [callIdentifier |-> callIdentifier, parent |-> parent, children |-> <<>>,
     calls |-> 0]

\* ProfileNode::appendCall, on node n of ns.
AppendCall(ns, n) ==
    [ns EXCEPT ![n].calls = IF @ < MaxCalls THEN @ + 1 ELSE @]

\* ProfileNode::addChild: child becomes the last child of n.
AddChild(ns, n, child) ==
    [ns EXCEPT ![n].children = Append(@, child), ![child].parent = n]

\* ProfileNode::spliceNode: node takes over the children of n and becomes the
\* only child of n.
SpliceNode(ns, n, node) ==
    [m \in 1..Len(ns) |->
        IF m = n THEN [ns[m] EXCEPT !.children = <<node>>]
        ELSE IF m = node THEN [ns[m] EXCEPT !.children = ns[n].children]
        ELSE IF ns[m].parent = n THEN [ns[m] EXCEPT !.parent = node]
        ELSE ns[m]]

\* The children of n whose call identifier is callIdentifier, by position.
Matching(ns, n, callIdentifier) ==
    {c \in 1..Len(ns[n].children) :
        ns[ns[n].children[c]].callIdentifier = callIdentifier}

\* The child the loop of willExecute ends with: the last that matches.
LastMatching(ns, n, callIdentifier) ==
    ns[n].children[CHOOSE c \in Matching(ns, n, callIdentifier) :
                       \A d \in Matching(ns, n, callIdentifier) : d <= c]

\* Variant of WillExecute that makes a node for the callee without looking
\* for one among the children.
WillExecuteAlwaysCreates(callIdentifier) ==
    /\ nodes # <<>>
    /\ IF ~m_origin \/ m_suspended
         THEN UNCHANGED <<nodes, m_currentNode>>
         ELSE /\ m_currentNode # NoNode
              /\ Len(nodes) < MaxNodes
              /\ LET calleeNode == Len(nodes) + 1
                     created == Append(nodes, CreateNode(callIdentifier, m_currentNode))
                 IN  /\ nodes' = AppendCall(AddChild(created, m_currentNode, calleeNode),
                                            calleeNode)
                     /\ m_currentNode' = calleeNode
    /\ lastCall' = [fn |-> "willExecute", callIdentifier |-> callIdentifier]
    /\ nodeBefore' = m_currentNode
    /\ UNCHANGED <<taskVars, idbVars, m_origin, m_suspended>>

\* ProfileGenerator::willExecute(callerCallFrame, callIdentifier)
WillExecute(callIdentifier) ==
    /\ nodes # <<>>
    /\ IF ~m_origin \/ m_suspended
         THEN UNCHANGED <<nodes, m_currentNode>>
         ELSE /\ m_currentNode # NoNode
              /\ IF Matching(nodes, m_currentNode, callIdentifier) # {}
                   THEN LET calleeNode == LastMatching(nodes, m_currentNode, callIdentifier)
                        IN  /\ nodes' = AppendCall(nodes, calleeNode)
                            /\ m_currentNode' = calleeNode
                   ELSE /\ Len(nodes) < MaxNodes
                        /\ LET calleeNode == Len(nodes) + 1
                               created == Append(nodes, CreateNode(callIdentifier, m_currentNode))
                           IN  /\ nodes' = AppendCall(AddChild(created, m_currentNode, calleeNode),
                                                      calleeNode)
                               /\ m_currentNode' = calleeNode
    /\ lastCall' = [fn |-> "willExecute", callIdentifier |-> callIdentifier]
    /\ nodeBefore' = m_currentNode
    /\ UNCHANGED <<taskVars, idbVars, m_origin, m_suspended>>

\* ProfileGenerator::didExecute(callerCallFrame, callIdentifier)
DidExecute(callIdentifier) ==
    /\ nodes # <<>>
    /\ IF ~m_origin \/ m_suspended
         THEN UNCHANGED <<nodes, m_currentNode>>
         ELSE /\ m_currentNode # NoNode
              /\ IF nodes[m_currentNode].callIdentifier # callIdentifier
                   THEN /\ Len(nodes) < MaxNodes
                        /\ LET calleeNode == Len(nodes) + 1
                               created == Append(nodes, CreateNode(callIdentifier, m_currentNode))
                           IN  nodes' = SpliceNode(AppendCall(created, calleeNode),
                                                   m_currentNode, calleeNode)
                        /\ UNCHANGED m_currentNode
                   ELSE /\ m_currentNode' = nodes[m_currentNode].parent
                        /\ UNCHANGED nodes
    /\ lastCall' = [fn |-> "didExecute", callIdentifier |-> callIdentifier]
    /\ nodeBefore' = m_currentNode
    /\ UNCHANGED <<taskVars, idbVars, m_origin, m_suspended>>

\* ProfileGenerator::setIsSuspended(suspended)
SetIsSuspended(suspended) ==
    /\ nodes # <<>>
    /\ m_suspended' = suspended
    /\ lastCall' = [fn |-> "setIsSuspended", callIdentifier |-> "none"]
    /\ nodeBefore' = m_currentNode
    /\ UNCHANGED <<taskVars, idbVars, nodes, m_currentNode, m_origin>>

\* ProfileGenerator::ProfileGenerator: without an ExecState there is no
\* origin; with one, addParentForConsoleStart may find the caller of
\* console.profile and put its node under the root.
ProfileInit ==
    /\ Constructed
    /\ debugBuild = FALSE
    /\ NoScript
    /\ m_origin \in BOOLEAN
    /\ m_suspended = FALSE
    /\ lastCall = NoCall
    /\ nodeBefore = NoNode
    /\ \/ /\ nodes = <<CreateNode(RootIdentifier, NoNode)>>
          /\ m_currentNode = 1
       \/ /\ m_origin
          /\ \E callIdentifier \in CallIdentifiers :
                nodes = SpliceNode(
                            AppendCall(<<CreateNode(RootIdentifier, NoNode),
                                         CreateNode(callIdentifier, 1)>>, 2),
                            1, 2)
          /\ m_currentNode = 2

ProfileNext ==
    \/ \E callIdentifier \in CallIdentifiers : WillExecute(callIdentifier)
    \/ \E callIdentifier \in CallIdentifiers : DidExecute(callIdentifier)
    \/ \E suspended \in BOOLEAN : SetIsSuspended(suspended)

ProfileSpec == ProfileInit /\ [][ProfileNext]_vars

\* ---------------------------------------------------------------- C25
\* didExecute(callIdentifier) is called right after willExecute of the same
\* identifier, the generator having an origin and not being suspended.
PairEnds(callIdentifier) ==
    /\ DidExecute(callIdentifier)
    /\ lastCall = [fn |-> "willExecute", callIdentifier |-> callIdentifier]
    /\ m_origin /\ ~m_suspended

\* C25: willExecute(id) followed by didExecute(id), with an origin and not
\* suspended, leaves m_currentNode where it was before the pair, and that
\* node then has exactly one child with the identifier, however often the
\* pair is repeated; while m_suspended is set willExecute and didExecute
\* change neither m_currentNode nor the tree.
C25_CallTreeBalance ==
    [][\A callIdentifier \in CallIdentifiers :
         /\ PairEnds(callIdentifier) =>
                /\ m_currentNode' = nodeBefore
                /\ Cardinality(Matching(nodes', nodeBefore, callIdentifier)) = 1
         /\ m_suspended /\ (WillExecute(callIdentifier) \/ DidExecute(callIdentifier)) =>
                UNCHANGED <<nodes, m_currentNode>>]_vars

\* A pair has been repeated under the same node.
C25_Witness ==
    /\ m_origin /\ ~m_suspended
    /\ lastCall = [fn |-> "didExecute", callIdentifier |-> "f"]
    /\ m_currentNode # NoNode
    /\ \E c \in Matching(nodes, m_currentNode, "f") :
           nodes[nodes[m_currentNode].children[c]].calls = 2

====
